---- MODULE Spec2Model ----
(***************************************************************************)
(* BufPay Node.js SDK (src/bufpay.js): the client's signer, createPayment, *)
(* queryPayment, verifyNotification and the POST /bufpay/notify route.     *)
(*                                                                         *)
(* JavaScript values are records tagged with their type (field t).  A text *)
(* is a sequence of characters.  The MD5 digest is kept symbolic: the      *)
(* digest of a text is a value that records the text, so two digests are   *)
(* equal exactly when their inputs are (the digest is treated as           *)
(* collision-free), and its hexadecimal rendering records its letter case. *)
(* A call of the client is a slot of `calls`; an async method takes two    *)
(* steps, the part up to its await and the part after it.                  *)
(***************************************************************************)
EXTENDS Integers, Sequences, FiniteSets, TLC

VARIABLES client, calls

vars == <<client, calls>>

(* ------------------------------ bounds --------------------------------- *)

\* Number of call slots that may be in flight together.
NumCalls == 2

\* Longest run of the character "1" tried as a field value.
MaxLen == 2

\* Largest number tried as a field value.
MaxNum == 1

Calls == 1..NumCalls

(* --------------------------- JavaScript values ------------------------- *)

Undef == [t |-> "undefined"]

Null == [t |-> "null"]

Str(s) == [t |-> "string", s |-> s]

Num(n) == [t |-> "number", n |-> n]

Bool(b) == [t |-> "boolean", b |-> b]

Obj(props) == [t |-> "object", f |-> props]

\* !v is false: a non-empty string or a non-zero number (a hex digest string
\* is never empty).
Truthy(v) ==
    CASE v.t = "string" -> IF "s" \in DOMAIN v THEN v.s # <<>> ELSE TRUE
      [] v.t = "number" -> v.n # 0
      [] v.t = "boolean" -> v.b
      [] v.t = "object" -> TRUE
      [] OTHER -> FALSE

DigitChars == <<"0", "1", "2", "3", "4", "5", "6", "7", "8", "9">>

RECURSIVE Decimal(_)
Decimal(n) ==
    IF n < 10 THEN <<DigitChars[n + 1]>>
    ELSE Decimal(n \div 10) \o <<DigitChars[(n % 10) + 1]>>

\* String(param) of a primitive value.
JSString(v) ==
    CASE v.t = "string" -> v.s
      [] v.t = "number" -> Decimal(v.n)
      [] v.t = "boolean" -> IF v.b THEN <<"t", "r", "u", "e">>
                            ELSE <<"f", "a", "l", "s", "e">>
      [] v.t = "null" -> <<"n", "u", "l", "l">>
      [] v.t = "undefined" -> <<"u", "n", "d", "e", "f", "i", "n", "e", "d">>

\* a === b on primitives: same type and same value.
StrictEquals(a, b) == a = b

\* Reading property k in a destructuring pattern: undefined when the value
\* is a primitive or has no such property.
Prop(params, k) ==
    IF params.t = "object" /\ k \in DOMAIN params.f THEN params.f[k] ELSE Undef

\* A destructuring pattern throws a TypeError on undefined and on null.
Destructurable(params) == params # Undef /\ params # Null

\* A default in a destructuring pattern applies to undefined only.
Default(v, d) == IF v = Undef THEN d ELSE v

(* ------------------------------ outcomes ------------------------------- *)

Pending == [kind |-> "pending"]

Return(v) == [kind |-> "return", value |-> v]

Throw(e) == [kind |-> "throw", error |-> e]

Error(msg) == [name |-> "Error", message |-> msg]

TypeError == [name |-> "TypeError", message |-> <<"Cannot destructure">>]

(* ------------------------------ the signer ----------------------------- *)

Present(param) == param # Undef /\ param # Null

RECURSIVE Join(_)
Join(texts) ==
    IF texts = <<>> THEN <<>> ELSE Head(texts) \o Join(Tail(texts))

MD5(text) == [alg |-> "md5", of |-> text]

Hex(d) == [t |-> "string", hex |-> d, upper |-> FALSE]

toUpperCase(h) == [h EXCEPT !.upper = TRUE]

createSignatureNoHash(params) ==
    LET kept == SelectSeq(params, Present)
    IN Str(Join([i \in 1..Len(kept) |-> JSString(kept[i])]))

createSignature(params) ==
    LET kept == SelectSeq(params, Present)
        concatenated == Join([i \in 1..Len(kept) |-> JSString(kept[i])])
    IN toUpperCase(Hex(MD5(concatenated)))

(* ------------------------------ the client ----------------------------- *)

APP_ID == <<"a", "p", "p", "1">>

APP_SECRET == <<"s", "3", "c", "r", "3", "t">>

BASE_URL == <<"https://bufpay.com/api">>

\* new BufPay(appId, appSecret)
BufPay(appId, appSecret) ==
    [appId |-> appId, appSecret |-> appSecret, baseUrl |-> Str(BASE_URL)]

NoReq == [method |-> "none"]

NoResp == [kind |-> "none"]

\* What a method has done when it throws before reaching the network, or
\* returns without it.
Settled(outcome, sigs) ==
    [pc |-> "done", outcome |-> outcome, req |-> NoReq, sigs |-> sigs, nets |-> 0]

\* What a method has done when it stops at its await of the HTTP request.
Awaiting(req, sigs) ==
    [pc |-> "await", outcome |-> Pending, req |-> req, sigs |-> sigs, nets |-> 1]

\* The parameters of createPayment after destructuring, defaults applied.
CreateLocals(params) ==
    [name |-> Prop(params, "name"),
     payType |-> Prop(params, "payType"),
     price |-> Prop(params, "price"),
     orderId |-> Prop(params, "orderId"),
     orderUid |-> Prop(params, "orderUid"),
     notifyUrl |-> Prop(params, "notifyUrl"),
     returnUrl |-> Default(Prop(params, "returnUrl"), Str(<<>>)),
     feedbackUrl |-> Default(Prop(params, "feedbackUrl"), Str(<<>>))]

MissingRequiredNoUid(a) ==
    \/ ~Truthy(a.name) \/ ~Truthy(a.payType) \/ ~Truthy(a.price)
    \/ ~Truthy(a.orderId) \/ ~Truthy(a.notifyUrl)

\* !name || !payType || !price || !orderId || !orderUid || !notifyUrl
MissingRequired(a) ==
    \/ ~Truthy(a.name) \/ ~Truthy(a.payType) \/ ~Truthy(a.price)
    \/ ~Truthy(a.orderId) \/ ~Truthy(a.orderUid) \/ ~Truthy(a.notifyUrl)

\* The value URLSearchParams stores for an entry: the value as a string.
USVString(v) == IF v.t = "string" THEN v ELSE Str(JSString(v))

\* new URLSearchParams({...}): the entries, in insertion order.  The body
\* sent is their form-urlencoding, which the receiver decodes to the same
\* entries.
FormData(a, signature) ==
    << <<"name", USVString(a.name)>>,
       <<"pay_type", USVString(a.payType)>>,
       <<"price", USVString(a.price)>>,
       <<"order_id", USVString(a.orderId)>>,
       <<"order_uid", USVString(a.orderUid)>>,
       <<"notify_url", USVString(a.notifyUrl)>>,
       <<"return_url", USVString(a.returnUrl)>>,
       <<"feedback_url", USVString(a.feedbackUrl)>>,
       <<"sign", USVString(signature)>> >>

\* axios.post(`${this.baseUrl}/pay/${this.appId}?format=json`, body, {headers})
PayRequest(cl, formData) ==
    [method |-> "POST",
     url |-> [base |-> JSString(cl.baseUrl), route |-> "pay",
              id |-> JSString(cl.appId), query |-> <<"format=json">>],
     headers |-> {<<"Content-Type", "application/x-www-form-urlencoded">>},
     body |-> formData]

\* axios.get(`${this.baseUrl}/query/${aoid}`)
QueryRequest(cl, aoid) ==
    [method |-> "GET",
     url |-> [base |-> JSString(cl.baseUrl), route |-> "query",
              id |-> JSString(aoid), query |-> <<>>],
     headers |-> {},
     body |-> <<>>]

\* createPayment up to its await.
createPayment(params, cl) ==
    IF ~Destructurable(params) THEN Settled(Throw(TypeError), 0)
    ELSE
      LET a == CreateLocals(params) IN
      IF MissingRequired(a)
      THEN Settled(Throw(Error(<<"Missing required payment parameters">>)), 0)
      ELSE
        LET signature ==
              createSignature(<<a.name, a.payType, a.price, a.orderId,
                                a.orderUid, a.notifyUrl, a.returnUrl,
                                a.feedbackUrl, cl.appSecret>>)
        IN Awaiting(PayRequest(cl, FormData(a, signature)), 1)

createPaymentResumeWhole(r) ==
    IF r.kind = "ok" THEN Return(r)
    ELSE Throw(Error(<<"Payment creation failed: ">> \o r.error.message))

\* createPayment after its await: response.data, or the error rethrown.
createPaymentResume(r) ==
    IF r.kind = "ok" THEN Return(r.data)
    ELSE Throw(Error(<<"Payment creation failed: ">> \o r.error.message))

\* queryPayment up to its await.
queryPayment(aoid, cl) ==
    IF ~Truthy(aoid) THEN Settled(Throw(Error(<<"AOID is required">>)), 0)
    ELSE Awaiting(QueryRequest(cl, aoid), 0)

\* queryPayment after its await.
queryPaymentResume(r) ==
    IF r.kind = "ok" THEN Return(r.data)
    ELSE Throw(Error(<<"Payment query failed: ">> \o r.error.message))

verifyNotificationSwapped(params, cl) ==
    IF ~Destructurable(params) THEN Settled(Throw(TypeError), 0)
    ELSE
      LET aoid == Prop(params, "aoid")
          order_id == Prop(params, "order_id")
          order_uid == Prop(params, "order_uid")
          price == Prop(params, "price")
          pay_price == Prop(params, "pay_price")
          sign == Prop(params, "sign")
      IN
      IF \/ ~Truthy(aoid) \/ ~Truthy(order_id) \/ ~Truthy(order_uid)
         \/ ~Truthy(price) \/ ~Truthy(pay_price) \/ ~Truthy(sign)
      THEN Settled(Return(Bool(FALSE)), 0)
      ELSE
        LET expectedSignature ==
              createSignature(<<aoid, order_id, order_uid, pay_price, price,
                                cl.appSecret>>)
        IN Settled(Return(Bool(StrictEquals(sign, expectedSignature))), 1)

verifyNotificationTruthySign(params, cl) ==
    IF ~Destructurable(params) THEN Settled(Throw(TypeError), 0)
    ELSE
      LET aoid == Prop(params, "aoid")
          order_id == Prop(params, "order_id")
          order_uid == Prop(params, "order_uid")
          price == Prop(params, "price")
          pay_price == Prop(params, "pay_price")
          sign == Prop(params, "sign")
      IN
      IF \/ ~Truthy(aoid) \/ ~Truthy(order_id) \/ ~Truthy(order_uid)
         \/ ~Truthy(price) \/ ~Truthy(pay_price) \/ ~Truthy(sign)
      THEN Settled(Return(Bool(FALSE)), 0)
      ELSE Settled(Return(Bool(Truthy(sign))), 1)

verifyNotification(params, cl) ==
    IF ~Destructurable(params) THEN Settled(Throw(TypeError), 0)
    ELSE
      LET aoid == Prop(params, "aoid")
          order_id == Prop(params, "order_id")
          order_uid == Prop(params, "order_uid")
          price == Prop(params, "price")
          pay_price == Prop(params, "pay_price")
          sign == Prop(params, "sign")
      IN
      IF \/ ~Truthy(aoid) \/ ~Truthy(order_id) \/ ~Truthy(order_uid)
         \/ ~Truthy(price) \/ ~Truthy(pay_price) \/ ~Truthy(sign)
      THEN Settled(Return(Bool(FALSE)), 0)
      ELSE
        LET expectedSignature ==
              createSignature(<<aoid, order_id, order_uid, price, pay_price,
                                cl.appSecret>>)
        IN Settled(Return(Bool(StrictEquals(sign, expectedSignature))), 1)

(* --------------------------- the webhook route ------------------------- *)

Respond(status, text) == [e |-> "respond", status |-> status, text |-> text]

Callback(payload) == [e |-> "callback", with |-> payload]

CallbackError == [name |-> "Error", message |-> <<"thrown by onPaymentSuccess">>]

\* What the route handler has done when it returns or throws: the callback
\* invocations and responses in order, and how it ended.
Handled(events, outcome, sigs) ==
    [pc |-> "done", outcome |-> outcome, events |-> events, sigs |-> sigs]

notifyHandlerCatch(body, cb, cl) ==
    LET v == verifyNotification(body, cl) IN
    IF v.outcome.kind = "throw" THEN Handled(<<>>, v.outcome, v.sigs)
    ELSE IF ~v.outcome.value.b
    THEN Handled(<<Respond(400, "Invalid signature")>>, Return(Undef), v.sigs)
    ELSE IF cb = "undefined"
    THEN Handled(<<Respond(200, "OK")>>, Return(Undef), v.sigs)
    ELSE Handled(<<Callback(body), Respond(200, "OK")>>, Return(Undef), v.sigs)

notifyHandlerRespondFirst(body, cb, cl) ==
    LET v == verifyNotification(body, cl) IN
    IF v.outcome.kind = "throw" THEN Handled(<<>>, v.outcome, v.sigs)
    ELSE IF ~v.outcome.value.b
    THEN Handled(<<Respond(400, "Invalid signature")>>, Return(Undef), v.sigs)
    ELSE IF cb = "undefined"
    THEN Handled(<<Respond(200, "OK")>>, Return(Undef), v.sigs)
    ELSE IF cb = "throws"
    THEN Handled(<<Respond(200, "OK"), Callback(body)>>, Throw(CallbackError), v.sigs)
    ELSE Handled(<<Respond(200, "OK"), Callback(body)>>, Return(Undef), v.sigs)

\* router.post('/bufpay/notify', express.json(), (req, res) => ...): the
\* handler run on the parsed body.  cb is what onPaymentSuccess is: not a
\* function ("undefined"), a function that returns ("returns") or a function
\* that throws ("throws").
notifyHandler(body, cb, cl) ==
    LET v == verifyNotification(body, cl) IN
    IF v.outcome.kind = "throw" THEN Handled(<<>>, v.outcome, v.sigs)
    ELSE IF ~v.outcome.value.b
    THEN Handled(<<Respond(400, "Invalid signature")>>, Return(Undef), v.sigs)
    ELSE IF cb = "undefined"
    THEN Handled(<<Respond(200, "OK")>>, Return(Undef), v.sigs)
    ELSE IF cb = "throws"
    THEN Handled(<<Callback(body)>>, Throw(CallbackError), v.sigs)
    ELSE Handled(<<Callback(body), Respond(200, "OK")>>, Return(Undef), v.sigs)

(* ------------------------------- inputs -------------------------------- *)

Ones(k) == [i \in 1..k |-> "1"]

\* Values tried for one property: absent, null, the empty string, runs of
\* "1", and numbers from 0.
JSVals ==
    {Undef, Null} \cup {Str(Ones(k)) : k \in 0..MaxLen}
                  \cup {Num(n) : n \in 0..MaxNum}

CreateKeys ==
    {"name", "payType", "price", "orderId", "orderUid", "notifyUrl",
     "returnUrl", "feedbackUrl"}

BaseCreate ==
    Obj([name |-> Str(<<"T">>),
         payType |-> Str(<<"a", "l", "i", "p", "a", "y">>),
         price |-> Str(<<"1", "0", "0", ".", "0", "0">>),
         orderId |-> Str(<<"o", "1">>),
         orderUid |-> Str(<<"u", "1">>),
         notifyUrl |-> Str(<<"https://shop/notify">>),
         returnUrl |-> Str(<<"https://shop/success">>),
         feedbackUrl |-> Undef])

\* Arguments of createPayment: the valid request with one property replaced,
\* and values that are no object.
CreateParams ==
    {Undef, Null, Num(1), BaseCreate}
      \cup {[BaseCreate EXCEPT !.f[k] = v] : k \in CreateKeys, v \in JSVals}

\* Arguments of queryPayment.
QueryArgs == JSVals \cup {Str(<<"A", "1">>)}

SignedKeys == {"aoid", "order_id", "order_uid", "price", "pay_price"}

BaseFields ==
    [aoid |-> Str(<<"A", "1">>),
     order_id |-> Str(<<"O", "1">>),
     order_uid |-> Str(<<"U", "1">>),
     price |-> Str(<<"1", "0", ".", "0", "0">>),
     pay_price |-> Str(<<"9", ".", "5", "0">>)]

TamperedPayPrice == Str(<<"9", ".", "5", "1">>)

\* The signature the gateway puts on a notification: uppercase hex MD5 of
\* the five fields' texts and the shared secret.
GatewaySign(f) ==
    [t |-> "string",
     hex |-> [alg |-> "md5",
              of |-> Join([i \in 1..5 |->
                             JSString(<<f.aoid, f.order_id, f.order_uid,
                                        f.price, f.pay_price>>[i])])
                     \o APP_SECRET],
     upper |-> TRUE]

LowerCase(h) == [h EXCEPT !.upper = FALSE]

Notification(f, sign) ==
    Obj([aoid |-> f.aoid, order_id |-> f.order_id, order_uid |-> f.order_uid,
         price |-> f.price, pay_price |-> f.pay_price, sign |-> sign])

\* A body that has no sign property at all.
Unsigned(f) ==
    Obj([aoid |-> f.aoid, order_id |-> f.order_id, order_uid |-> f.order_uid,
         price |-> f.price, pay_price |-> f.pay_price])

\* Field values of a notification: the reference values with one field
\* replaced, or with characters moved between aoid and order_id.
FieldTuples ==
    {BaseFields}
      \cup {[BaseFields EXCEPT ![k] = v] :
              k \in SignedKeys, v \in JSVals \cup {TamperedPayPrice}}
      \cup {[BaseFields EXCEPT !.aoid = Str(Ones(i)), !.order_id = Str(Ones(j))] :
              i \in 1..MaxLen, j \in 1..MaxLen}

\* Arguments of verifyNotification: each field tuple with the gateway's
\* signature of it, the same in lowercase, or the signature of the reference
\* values; the reference values with any value as sign; values that are no
\* object.
Notifications ==
    UNION {{Notification(f, s) :
              s \in {GatewaySign(f), LowerCase(GatewaySign(f)),
                     GatewaySign(BaseFields)}} : f \in FieldTuples}
      \cup {Notification(BaseFields, v) : v \in JSVals}
      \cup {Unsigned(BaseFields), Undef, Null, Num(1)}

PayPriceTuples ==
    {BaseFields}
      \cup {[BaseFields EXCEPT !.pay_price = v] : v \in JSVals \cup {TamperedPayPrice}}

\* req.body of a POST /bufpay/notify after express.json(): a parsed object,
\* or undefined when the middleware parsed nothing.
NotifyBodies ==
    UNION {{Notification(f, s) : s \in {GatewaySign(f), GatewaySign(BaseFields)}} :
             f \in PayPriceTuples}
      \cup {Notification(BaseFields, LowerCase(GatewaySign(BaseFields))),
            Unsigned(BaseFields), Undef}

\* What onPaymentSuccess is.
Callbacks == {"undefined", "returns", "throws"}

\* How the awaited HTTP request ends: a success response with its data, or
\* axios rejecting on a transport failure or a non-2xx status.
GatewayReplies ==
    {[kind |-> "ok", data |-> [t |-> "object", json |-> d]] :
        d \in {"payment-1", "payment-2"}}
      \cup {[kind |-> "fail", error |-> [name |-> "AxiosError", message |-> <<m>>]] :
              m \in {"Network Error", "Request failed with status code 500"}}

(* ------------------------------- state --------------------------------- *)

Idle ==
    [op |-> "idle", arg |-> Undef, cb |-> "undefined", pc |-> "idle",
     outcome |-> Pending, req |-> NoReq, resp |-> NoResp,
     sigs |-> 0, nets |-> 0, events |-> <<>>]

Init ==
    /\ client = BufPay(Str(APP_ID), Str(APP_SECRET))
    /\ calls = [c \in Calls |-> Idle]

CallCreatePaymentShared(c, params) ==
    /\ calls[c].op = "idle"
    /\ LET inFlight == {d \in Calls : calls[d].op = "createPayment" /\ calls[d].pc = "await"}
           pending == IF inFlight = {} THEN params
                      ELSE calls[CHOOSE d \in inFlight : TRUE].arg
           r == createPayment(pending, client)
       IN
       calls' = [calls EXCEPT ![c] =
                   [Idle EXCEPT !.op = "createPayment", !.arg = params,
                                !.pc = r.pc, !.outcome = r.outcome,
                                !.req = r.req, !.sigs = r.sigs, !.nets = r.nets]]
    /\ UNCHANGED client

\* A caller calls createPayment(params): it runs to its await, or throws.
CallCreatePayment(c, params) ==
    /\ calls[c].op = "idle"
    /\ LET r == createPayment(params, client) IN
       calls' = [calls EXCEPT ![c] =
                   [Idle EXCEPT !.op = "createPayment", !.arg = params,
                                !.pc = r.pc, !.outcome = r.outcome,
                                !.req = r.req, !.sigs = r.sigs, !.nets = r.nets]]
    /\ UNCHANGED client

\* The awaited POST settles with r and createPayment runs to its end.
ResumeCreatePayment(c, r) ==
    /\ calls[c].op = "createPayment"
    /\ calls[c].pc = "await"
    /\ calls' = [calls EXCEPT ![c].pc = "done", ![c].resp = r,
                              ![c].outcome = createPaymentResume(r)]
    /\ UNCHANGED client

\* A caller calls queryPayment(aoid).
CallQueryPayment(c, aoid) ==
    /\ calls[c].op = "idle"
    /\ LET r == queryPayment(aoid, client) IN
       calls' = [calls EXCEPT ![c] =
                   [Idle EXCEPT !.op = "queryPayment", !.arg = aoid,
                                !.pc = r.pc, !.outcome = r.outcome,
                                !.req = r.req, !.sigs = r.sigs, !.nets = r.nets]]
    /\ UNCHANGED client

\* The awaited GET settles with r and queryPayment runs to its end.
ResumeQueryPayment(c, r) ==
    /\ calls[c].op = "queryPayment"
    /\ calls[c].pc = "await"
    /\ calls' = [calls EXCEPT ![c].pc = "done", ![c].resp = r,
                              ![c].outcome = queryPaymentResume(r)]
    /\ UNCHANGED client

\* A caller calls verifyNotification(params): synchronous, one step.
CallVerifyNotification(c, params) ==
    /\ calls[c].op = "idle"
    /\ LET r == verifyNotification(params, client) IN
       calls' = [calls EXCEPT ![c] =
                   [Idle EXCEPT !.op = "verifyNotification", !.arg = params,
                                !.pc = r.pc, !.outcome = r.outcome,
                                !.sigs = r.sigs]]
    /\ UNCHANGED client

\* A POST /bufpay/notify arrives with the parsed body: the route handler is
\* synchronous, one step.
PostNotify(c, body, cb) ==
    /\ calls[c].op = "idle"
    /\ LET r == notifyHandler(body, cb, client) IN
       calls' = [calls EXCEPT ![c] =
                   [Idle EXCEPT !.op = "notify", !.arg = body, !.cb = cb,
                                !.pc = r.pc, !.outcome = r.outcome,
                                !.sigs = r.sigs, !.events = r.events]]
    /\ UNCHANGED client

\* The caller has its result: the slot is free for another call.
Finish(c) ==
    /\ calls[c].pc = "done"
    /\ calls' = [calls EXCEPT ![c] = Idle]
    /\ UNCHANGED client

\* One call at a time, over the full input sets.
Next ==
    \E c \in {1} :
        \/ \E params \in CreateParams : CallCreatePayment(c, params)
        \/ \E r \in GatewayReplies : ResumeCreatePayment(c, r)
        \/ \E aoid \in QueryArgs : CallQueryPayment(c, aoid)
        \/ \E r \in GatewayReplies : ResumeQueryPayment(c, r)
        \/ \E params \in Notifications : CallVerifyNotification(c, params)
        \/ \E body \in NotifyBodies : \E cb \in Callbacks : PostNotify(c, body, cb)
        \/ Finish(c)

Spec == Init /\ [][Next]_vars

(* ----------------------- concurrent calls ------------------------------ *)

ConcCreateParams ==
    {BaseCreate,
     [BaseCreate EXCEPT !.f.name = Undef],
     [BaseCreate EXCEPT !.f.price = Str(<<"2", "0", "0">>)]}

ConcQueryArgs == {Undef, Str(<<"A", "1">>)}

ConcFieldTuples ==
    {BaseFields,
     [BaseFields EXCEPT !.aoid = Str(<<"1">>), !.order_id = Str(<<"1", "1">>)],
     [BaseFields EXCEPT !.aoid = Str(<<"1", "1">>), !.order_id = Str(<<"1">>)],
     [BaseFields EXCEPT !.price = Str(<<"1">>)],
     [BaseFields EXCEPT !.price = Num(1)]}

ConcNotifications ==
    {Notification(f, GatewaySign(f)) : f \in ConcFieldTuples}
      \cup {Notification([BaseFields EXCEPT !.pay_price = TamperedPayPrice],
                         GatewaySign(BaseFields))}

ConcNotifyBodies ==
    {Notification(BaseFields, GatewaySign(BaseFields)),
     Notification([BaseFields EXCEPT !.pay_price = TamperedPayPrice],
                  GatewaySign(BaseFields))}

ConcReplies ==
    {r \in GatewayReplies :
        \/ r.kind = "ok" /\ r.data.json = "payment-1"
        \/ r.kind = "fail" /\ r.error.message = <<"Network Error">>}

\* Any interleaving of the calls' steps, over the reduced input sets.
NextConc ==
    \E c \in Calls :
        \/ \E params \in ConcCreateParams : CallCreatePayment(c, params)
        \/ \E r \in ConcReplies : ResumeCreatePayment(c, r)
        \/ \E aoid \in ConcQueryArgs : CallQueryPayment(c, aoid)
        \/ \E r \in ConcReplies : ResumeQueryPayment(c, r)
        \/ \E params \in ConcNotifications : CallVerifyNotification(c, params)
        \/ \E body \in ConcNotifyBodies : \E cb \in Callbacks : PostNotify(c, body, cb)
        \/ Finish(c)

SpecConc == Init /\ [][NextConc]_vars

(* ------------------------------ properties ----------------------------- *)

RequiredKeys ==
    {"name", "payType", "price", "orderId", "orderUid", "notifyUrl"}

NotificationKeys == SignedKeys \cup {"sign"}

\* The signature of section 4.1 over an ordered list of values: the absent
\* ones dropped, the rest as text, concatenated, MD5, uppercase hex.
SignedText(values) ==
    LET kept == SelectSeq(values, Present)
    IN Join([i \in 1..Len(kept) |-> JSString(kept[i])])

SignatureOf(values) ==
    [t |-> "string", hex |-> [alg |-> "md5", of |-> SignedText(values)],
     upper |-> TRUE]

IsObject(v) == v.t = "object"

\* The five signed field values of a notification, in signing order.
FieldsOf(params) ==
    <<Prop(params, "aoid"), Prop(params, "order_id"), Prop(params, "order_uid"),
      Prop(params, "price"), Prop(params, "pay_price")>>

IsSubstring(needle, text) ==
    \E i \in 0..(Len(text) - Len(needle)) :
        SubSeq(text, i + 1, i + Len(needle)) = needle

IsResponse(ev) == ev.e = "respond"

IsCallback(ev) == ev.e = "callback"

NumResponses(events) == Len(SelectSeq(events, IsResponse))

NumCallbacks(events) == Len(SelectSeq(events, IsCallback))

\* C1: a createPayment call with one of the six required parameters missing,
\* and a queryPayment call whose identifier is absent or empty, fails with the
\* validation error, having computed no signature and issued no HTTP request
\* (a createPayment call given no object at all fails as early, with the
\* TypeError of its parameter pattern).
C1_ValidationBeforeIO ==
    \A c \in Calls :
      LET k == calls[c] IN
      /\ (/\ k.op = "createPayment"
          /\ \E key \in RequiredKeys : ~Present(Prop(k.arg, key)))
         => /\ k.pc = "done"
            /\ k.outcome
                 = IF Destructurable(k.arg)
                   THEN Throw(Error(<<"Missing required payment parameters">>))
                   ELSE Throw(TypeError)
            /\ k.sigs = 0 /\ k.nets = 0 /\ k.req = NoReq
      /\ (k.op = "queryPayment" /\ k.arg \in {Undef, Null, Str(<<>>)})
         => /\ k.pc = "done"
            /\ k.outcome = Throw(Error(<<"AOID is required">>))
            /\ k.sigs = 0 /\ k.nets = 0 /\ k.req = NoReq

C1_Witness ==
    \E c \in Calls :
      /\ calls[c].op = "createPayment"
      /\ IsObject(calls[c].arg)
      /\ Prop(calls[c].arg, "orderUid") = Undef
      /\ calls[c].pc = "done"

\* C2: verifyNotification never throws, whatever it is given: it returns a
\* boolean, and false when one of the six fields is missing.
C2_NeverThrows ==
    \A c \in Calls :
      LET k == calls[c] IN
      k.op = "verifyNotification"
        => /\ k.outcome.kind = "return"
           /\ k.outcome.value \in {Bool(TRUE), Bool(FALSE)}
           /\ (\E key \in NotificationKeys : ~Present(Prop(k.arg, key)))
                => k.outcome.value = Bool(FALSE)

\* C3 (as stated): when none of the six fields is null or undefined,
\* verifyNotification returns true exactly when sign equals the signature of
\* (aoid, order_id, order_uid, price, pay_price, secret).
C3_PresentIffSignature ==
    \A c \in Calls :
      LET k == calls[c] IN
      (/\ k.op = "verifyNotification"
       /\ IsObject(k.arg)
       /\ \A key \in NotificationKeys : Present(Prop(k.arg, key)))
        => (k.outcome = Return(Bool(TRUE)))
             <=> (Prop(k.arg, "sign")
                    = SignatureOf(FieldsOf(k.arg) \o <<client.appSecret>>))

\* C3 (amended): when each of the six fields is present and not empty (a
\* non-empty string or a non-zero number), verifyNotification returns true
\* exactly when sign equals the signature of (aoid, order_id, order_uid,
\* price, pay_price, secret), and returns false otherwise.
C3_TruthyIffSignature ==
    \A c \in Calls :
      LET k == calls[c] IN
      (/\ k.op = "verifyNotification"
       /\ IsObject(k.arg)
       /\ \A key \in NotificationKeys : Truthy(Prop(k.arg, key)))
        => /\ k.outcome.kind = "return"
           /\ k.outcome.value
                = Bool(Prop(k.arg, "sign")
                         = SignatureOf(FieldsOf(k.arg) \o <<client.appSecret>>))

C3_Witness ==
    \E c \in Calls :
      /\ calls[c].op = "verifyNotification"
      /\ IsObject(calls[c].arg)
      /\ Prop(calls[c].arg, "price") = Num(1)
      /\ calls[c].outcome = Return(Bool(TRUE))

\* C4 (as stated): on a failed verification the route responds 400 'Invalid
\* signature' and the callback is not invoked; on a passed one the callback,
\* when supplied, is invoked once with the body and then the response is
\* 200 'OK'.
C4_RouteResponds ==
    \A c \in Calls :
      LET k == calls[c]
          v == verifyNotification(k.arg, client).outcome
      IN
      k.op = "notify"
        => /\ v = Return(Bool(FALSE))
                => k.events = <<Respond(400, "Invalid signature")>>
           /\ v = Return(Bool(TRUE))
                => k.events
                     = (IF k.cb = "undefined" THEN <<>> ELSE <<Callback(k.arg)>>)
                         \o <<Respond(200, "OK")>>

\* C4 (amended): on a failed verification the route responds 400 'Invalid
\* signature' and the callback is not invoked; on a passed one the callback,
\* when supplied, is invoked exactly once with the body, before any response,
\* and the response is 200 'OK' unless the callback throws, in which case the
\* adapter sends none.  No request gets two responses, or a 200 without a
\* passed verification.
C4_RouteRespondsUnlessThrown ==
    \A c \in Calls :
      LET k == calls[c]
          v == verifyNotification(k.arg, client).outcome
      IN
      k.op = "notify"
        => /\ v = Return(Bool(FALSE))
                => k.events = <<Respond(400, "Invalid signature")>>
           /\ v = Return(Bool(TRUE))
                => /\ NumCallbacks(k.events)
                        = (IF k.cb = "undefined" THEN 0 ELSE 1)
                   /\ k.cb # "undefined" => k.events[1] = Callback(k.arg)
                   /\ k.outcome.kind = "return"
                        => k.events[Len(k.events)] = Respond(200, "OK")
                   /\ k.outcome.kind = "throw"
                        => NumResponses(k.events) = 0
           /\ NumResponses(k.events) <= 1
           /\ (\E i \in 1..Len(k.events) : k.events[i] = Respond(200, "OK"))
                => v = Return(Bool(TRUE))

C4_Witness ==
    \E c \in Calls :
      /\ calls[c].op = "notify"
      /\ calls[c].cb = "returns"
      /\ calls[c].events = <<Callback(calls[c].arg), Respond(200, "OK")>>

\* C5: a createPayment or queryPayment call that passes validation issues
\* exactly one HTTP request; when the request fails the call fails with an
\* error that carries the cause's message, and when it succeeds the call
\* returns the response data as received.
C5_OneRequestPassThrough ==
    \A c \in Calls :
      LET k == calls[c]
          prefix == IF k.op = "createPayment"
                    THEN <<"Payment creation failed: ">>
                    ELSE <<"Payment query failed: ">>
      IN
      (\/ /\ k.op = "createPayment"
          /\ IsObject(k.arg)
          /\ \A key \in RequiredKeys : Truthy(Prop(k.arg, key))
       \/ k.op = "queryPayment" /\ Truthy(k.arg))
        => /\ k.nets = 1
           /\ k.req # NoReq
           /\ k.pc = "done"
                => /\ k.resp.kind = "ok" => k.outcome = Return(k.resp.data)
                   /\ k.resp.kind = "fail"
                        => k.outcome
                             = Throw(Error(prefix \o k.resp.error.message))

C5_Witness ==
    \E c \in Calls :
      /\ calls[c].op = "createPayment"
      /\ calls[c].pc = "done"
      /\ calls[c].nets = 1
      /\ calls[c].resp.kind = "fail"

\* The texts an outbound request carries: the URL's parts, the header names
\* and values, and the body's values (a digest's hex text is not among them:
\* it carries its input only hashed).
RequestTexts(req) ==
    {req.url.base, req.url.id, req.url.query}
      \cup UNION {{<<h[1]>>, <<h[2]>>} : h \in req.headers}
      \cup {req.body[i][2].s :
              i \in {j \in 1..Len(req.body) : "s" \in DOMAIN req.body[j][2]}}

\* The texts of the arguments the caller itself passed.
ArgTexts(arg) ==
    IF IsObject(arg)
    THEN {JSString(arg.f[key]) : key \in DOMAIN arg.f}
    ELSE {JSString(arg)}

\* C6 (as stated): neither credential's value appears in the URL, headers or
\* body of an outbound request.
C6_NoCredentialSent ==
    \A c \in Calls :
      calls[c].req # NoReq
        => \A text \in RequestTexts(calls[c].req) :
             /\ ~IsSubstring(JSString(client.appId), text)
             /\ ~IsSubstring(JSString(client.appSecret), text)

\* C6 (amended): the shared secret's value appears in no URL part, header or
\* body field of an outbound request other than a text the caller passed in;
\* the application identifier is sent, as the path segment of createPayment's
\* URL and nowhere else.
C6_SecretNeverSent ==
    \A c \in Calls :
      LET k == calls[c] IN
      k.req # NoReq
        => /\ \A text \in RequestTexts(k.req) \ ArgTexts(k.arg) :
                ~IsSubstring(JSString(client.appSecret), text)
           /\ \A text \in (RequestTexts(k.req) \ ArgTexts(k.arg)) \ {k.req.url.id} :
                ~IsSubstring(JSString(client.appId), text)
           /\ k.op = "createPayment" => k.req.url.id = JSString(client.appId)

C6_Witness ==
    \E c \in Calls :
      /\ calls[c].op = "createPayment"
      /\ calls[c].pc = "await"
      /\ calls[c].req.url.id = APP_ID

\* What a call's slot holds as a function of its own argument, the client
\* and its own gateway reply.
OwnResult(k, cl) ==
    LET first ==
          CASE k.op = "createPayment" -> createPayment(k.arg, cl)
            [] k.op = "queryPayment" -> queryPayment(k.arg, cl)
            [] k.op = "verifyNotification" -> verifyNotification(k.arg, cl)
            [] k.op = "notify" -> notifyHandler(k.arg, k.cb, cl)
        last ==
          CASE k.op = "createPayment" -> createPaymentResume(k.resp)
            [] k.op = "queryPayment" -> queryPaymentResume(k.resp)
    IN
    /\ k.sigs = first.sigs
    /\ k.op \in {"createPayment", "queryPayment"}
         => /\ k.req = first.req
            /\ k.nets = first.nets
    /\ k.op = "notify" => k.events = first.events
    /\ k.outcome = IF k.resp = NoResp THEN first.outcome ELSE last

CallsIndependent ==
    \A c \in Calls : calls[c].op # "idle" => OwnResult(calls[c], client)

StepLocal ==
    /\ client' = client
    /\ \E c \in Calls : \A d \in Calls \ {c} : calls'[d] = calls[d]

\* C7: under any interleaving, what each call computed, sent and returned is
\* determined by its own argument, the credentials and its own gateway reply;
\* a step changes one call's slot only, and never the client.
C7_Independent == [](CallsIndependent) /\ [][StepLocal]_vars

C7_Witness ==
    \E c, d \in Calls :
      /\ calls[c].op = "createPayment" /\ calls[c].pc = "await"
      /\ calls[d].op = "createPayment" /\ calls[d].pc = "done"
      /\ calls[d].resp.kind = "fail"
      /\ calls[c].arg # calls[d].arg

\* C8: when the body verifies and the callback throws, the adapter sends no
\* response and the handler ends by throwing the callback's exception.
C8_CallbackThrowPropagates ==
    \A c \in Calls :
      LET k == calls[c] IN
      (/\ k.op = "notify"
       /\ k.cb = "throws"
       /\ verifyNotification(k.arg, client).outcome = Return(Bool(TRUE)))
        => /\ k.outcome = Throw(CallbackError)
           /\ NumResponses(k.events) = 0
           /\ NumCallbacks(k.events) = 1

C8_Witness ==
    \E c \in Calls :
      /\ calls[c].op = "notify"
      /\ calls[c].cb = "throws"
      /\ calls[c].events = <<Callback(calls[c].arg)>>
      /\ calls[c].outcome.kind = "throw"

\* C9: in every createPayment request the sign entry of the body is the
\* signature of the eight field values sent in that body, in order, followed
\* by the shared secret.
C9_SignCoversBody ==
    \A c \in Calls :
      LET k == calls[c] IN
      (k.op = "createPayment" /\ k.req # NoReq)
        => k.req.body[9][2]
             = SignatureOf([i \in 1..8 |-> k.req.body[i][2]] \o <<client.appSecret>>)

Verified(k) == k.op = "verifyNotification" /\ k.outcome = Return(Bool(TRUE))

\* C10 (as stated): two notifications that verify with the same sign have
\* the same value in each of the five signed fields.
C10_SameSignSameFields ==
    \A c, d \in Calls :
      (/\ Verified(calls[c]) /\ Verified(calls[d])
       /\ Prop(calls[c].arg, "sign") = Prop(calls[d].arg, "sign"))
        => FieldsOf(calls[c].arg) = FieldsOf(calls[d].arg)

\* C10 (amended): two notifications that verify with the same sign have the
\* same concatenation of the five signed fields' texts; the boundaries
\* between the fields and the fields' types are not covered.
C10_SameSignSameText ==
    \A c, d \in Calls :
      (/\ Verified(calls[c]) /\ Verified(calls[d])
       /\ Prop(calls[c].arg, "sign") = Prop(calls[d].arg, "sign"))
        => SignedText(FieldsOf(calls[c].arg)) = SignedText(FieldsOf(calls[d].arg))

C10_Witness ==
    \E c, d \in Calls :
      /\ Verified(calls[c]) /\ Verified(calls[d])
      /\ Prop(calls[c].arg, "sign") = Prop(calls[d].arg, "sign")
      /\ Prop(calls[c].arg, "aoid") # Prop(calls[d].arg, "aoid")

====
